---------------------------- MODULE Spec2Model ----------------------------
(***************************************************************************)
(* Caro (gomoku) game context: the win detection checkWin, the reducer     *)
(* gameReducer and the GameProvider operations makeMove, resetGame,        *)
(* setStatus and setBoard of client/src/middleware.ts (GameContext); the   *)
(* game page built on them (client/src/app/game/page.tsx); the server's    *)
(* UserService.updateStats; and the client's SocketClient.                 *)
(***************************************************************************)
EXTENDS Integers, FiniteSets, Sequences, TLC

VARIABLES
    state,   \* GameState held by useReducer(gameReducer, initialState)
    ret,     \* value returned by the most recent makeMove call ("none" before any)
    probe,   \* arguments (board, position, player) of a direct checkWin call
    result,  \* value returned by that checkWin call
    pc,      \* position of the direct checkWin call: "idle", "call" or "return"
    rendered,\* state.board of the last render, captured by the makeMove callback
    users,   \* rows of the users table, by user id
    calls,   \* invocations of UserService.updateStats, by call number
    client,  \* the SocketClient singleton: its fields socket and reconnectAttempts
    sockets, \* the Socket objects created by io(), by socket number
    conn,    \* the sockets returned by the calls of SocketClient.connect, in order
    env,     \* what the code does not read: seats filled, time in the turn, whether
             \* and how long the client has been away, whether the game has been
             \* over since it was last reset
    browser  \* the browser: the caro_auth_token cookie, the localStorage auth
             \* token, the path of the page shown, the path requested and the
             \* answer given to the last request

vars == <<state, ret, probe, result, pc, rendered, users, calls, client, sockets,
          conn, env, browser>>

\* the variables of the user service, of the socket client, and all those
\* outside the game context and the direct checkWin call
serviceVars == <<users, calls>>
socketVars == <<client, sockets, conn>>
outside == <<rendered, users, calls, client, sockets, conn, env, browser>>

(***************************************************************************)
(* Program constants (GAME_CONFIG) and value encodings                     *)
(***************************************************************************)
BOARD_SIZE == 16
WIN_CONDITION == 5

\* CellValue / PlayerSymbol | null: 'X', 'O' or null
null == "null"
\* null of an object-typed field (winningLine, lastMove)
nullRef == [null |-> TRUE]

PlayerSymbol == {"X", "O"}
GameStatus == {"waiting", "playing", "finished", "draw"}
Index == 0 .. (BOARD_SIZE - 1)

Opponent(player) == IF player = "X" THEN "O" ELSE "X"

createEmptyBoard == [r \in Index |-> [c \in Index |-> null]]

initialState ==
    [ board         |-> createEmptyBoard,
      currentPlayer |-> "X",
      status        |-> "waiting",
      winner        |-> null,
      winningLine   |-> nullRef,
      lastMove      |-> nullRef,
      moveCount     |-> 0 ]

(***************************************************************************)
(* Win detection: checkWin                                                 *)
(***************************************************************************)
directions_verticalFirst ==
    << [dx |-> 1, dy |-> 0,  name |-> "vertical"],
       [dx |-> 0, dy |-> 1,  name |-> "horizontal"],
       [dx |-> 1, dy |-> 1,  name |-> "diagonal-down"],
       [dx |-> 1, dy |-> -1, name |-> "diagonal-up"] >>

directions ==
    << [dx |-> 0, dy |-> 1,  name |-> "horizontal"],
       [dx |-> 1, dy |-> 0,  name |-> "vertical"],
       [dx |-> 1, dy |-> 1,  name |-> "diagonal-down"],
       [dx |-> 1, dy |-> -1, name |-> "diagonal-up"] >>

\* the bounds part of both while conditions of checkWin
inRange_edgeOff(r, c) ==
    r > 0 /\ r < BOARD_SIZE /\ c > 0 /\ c < BOARD_SIZE

inRange(r, c) ==
    r >= 0 /\ r < BOARD_SIZE /\ c >= 0 /\ c < BOARD_SIZE

\* one while loop of checkWin: walks from (r, c) in steps of (dr, dc) while the
\* cell is on the board and holds player; acc carries count and the last cell
RECURSIVE scan(_, _, _, _, _, _, _)
scan(board, player, r, c, dr, dc, acc) ==
    IF inRange(r, c) /\ board[r][c] = player
    THEN scan(board, player, r + dr, c + dc, dr, dc,
              [count |-> acc.count + 1, row |-> r, col |-> c])
    ELSE acc

\* the test that ends the direction loop with a line
reachesWin_strict(count) == count > WIN_CONDITION

reachesWin_exact(count) == count = WIN_CONDITION

reachesWin(count) == count >= WIN_CONDITION

RECURSIVE checkWinFrom(_, _, _, _)
checkWinFrom(board, position, player, i) ==
    IF i > Len(directions) THEN nullRef
    ELSE
      LET d   == directions[i]
          fwd == scan(board, player, position.row + d.dx, position.col + d.dy,
                      d.dx, d.dy,
                      [count |-> 1, row |-> position.row, col |-> position.col])
          bwd == scan(board, player, position.row - d.dx, position.col - d.dy,
                      -d.dx, -d.dy,
                      [count |-> fwd.count, row |-> position.row, col |-> position.col])
      IN  IF reachesWin(bwd.count)
          THEN [ start     |-> [row |-> bwd.row, col |-> bwd.col],
                 end       |-> [row |-> fwd.row, col |-> fwd.col],
                 direction |-> d.name ]
          ELSE checkWinFrom(board, position, player, i + 1)

checkWin(board, position, player) == checkWinFrom(board, position, player, 1)

(***************************************************************************)
(* The parts a specification does not exercise stay as they are built: no  *)
(* call of the user service, the SocketClient as constructed, nobody in    *)
(* the room and no time passed.                                            *)
(***************************************************************************)
noSocket == 0

newSocketClient == [socket |-> noSocket, reconnectAttempts |-> 0]

ServiceIdle == users = <<>> /\ calls = <<>>

SocketIdle == client = newSocketClient /\ sockets = <<>> /\ conn = <<>>

\* the array initialState.board, made once when the module is loaded
initialBoardRef == 0

newEnv ==
    [ seats |-> 0, turnMs |-> 0, away |-> FALSE, downMs |-> 0, over |-> FALSE,
      boardRef |-> initialBoardRef ]

EnvIdle == env = newEnv

\* no token stored, the home page shown, nothing requested
noToken == "none"

newBrowser ==
    [ cookie |-> noToken, token |-> noToken, pathname |-> <<"/">>,
      request |-> <<>>, response |-> [type |-> "none"] ]

BrowserIdle == browser = newBrowser

(***************************************************************************)
(* Reducer: gameReducer                                                    *)
(***************************************************************************)
\* the "Validate move" test of MAKE_MOVE: TRUE when the move is rejected
moveRejected(s, row, col) ==
    s.status # "playing" \/ s.board[row][col] # null \/ s.winner # null

\* newStatus of MAKE_MOVE
newStatus_drawFirst(winner, isBoardFull) ==
    IF isBoardFull THEN "draw"
    ELSE IF winner # null THEN "finished"
    ELSE "playing"

newStatus(winner, isBoardFull) ==
    IF winner # null THEN "finished"
    ELSE IF isBoardFull THEN "draw"
    ELSE "playing"

\* currentPlayer of the state MAKE_MOVE returns
nextPlayer_keptAtGameEnd(s, status) ==
    IF status = "playing" THEN Opponent(s.currentPlayer) ELSE s.currentPlayer

nextPlayer(s, status) == IF s.currentPlayer = "X" THEN "O" ELSE "X"

gameReducer(s, action) ==
    CASE action.type = "MAKE_MOVE" ->
           LET row == action.payload.row
               col == action.payload.col
           IN  IF moveRejected(s, row, col) THEN s
               ELSE
                 LET newBoard     == [s.board EXCEPT ![row][col] = s.currentPlayer]
                     winningLine  == checkWin(newBoard, action.payload, s.currentPlayer)
                     winner       == IF winningLine # nullRef
                                     THEN s.currentPlayer ELSE null
                     newMoveCount == s.moveCount + 1
                     isBoardFull  == newMoveCount = BOARD_SIZE * BOARD_SIZE
                     status       == newStatus(winner, isBoardFull)
                 IN  [ board         |-> newBoard,
                       currentPlayer |-> nextPlayer(s, status),
                       status        |-> status,
                       winner        |-> winner,
                       winningLine   |-> winningLine,
                       lastMove      |-> action.payload,
                       moveCount     |-> newMoveCount ]
      [] action.type = "SET_WINNER" ->
           [s EXCEPT !.winner = action.payload.winner,
                     !.winningLine = action.payload.winningLine,
                     !.status = "finished"]
      [] action.type = "RESET_GAME" ->
           [initialState EXCEPT !.board = createEmptyBoard]
      [] action.type = "SET_STATUS" ->
           [s EXCEPT !.status = action.payload]
      [] action.type = "SET_BOARD" ->
           [s EXCEPT !.board = action.payload]
      [] OTHER -> s

(***************************************************************************)
(* GameProvider: the operations of the game context                        *)
(***************************************************************************)
\* "Validate position" of makeMove: TRUE when the position is off the board
positionInvalid(row, col) ==
    row < 0 \/ row >= BOARD_SIZE \/ col < 0 \/ col >= BOARD_SIZE

\* "Check if cell is already occupied" of makeMove
cellOccupied_ignored(board, row, col) == FALSE

cellOccupied(board, row, col) == board[row][col] # null

\* The callback reads the state.board of the render it was created in
\* (useCallback on [state.board]): `board` is that board.  The dispatched
\* action is reduced on the current state.
makeMoveOf(board, row, col) ==
    IF positionInvalid(row, col)
    THEN /\ ret' = "false"
         /\ UNCHANGED state
    ELSE IF cellOccupied(board, row, col)
    THEN /\ ret' = "false"
         /\ UNCHANGED state
    ELSE /\ state' = gameReducer(state, [ type    |-> "MAKE_MOVE",
                                          payload |-> [row |-> row, col |-> col] ])
         /\ ret' = "true"

\* a call made from its own event, after the render that followed the last
\* change of the board: the callback's board is the current one
makeMove(row, col) == makeMoveOf(state.board, row, col)

resetGame ==
    /\ state' = gameReducer(state, [type |-> "RESET_GAME"])
    /\ UNCHANGED ret

setStatus(status) ==
    /\ state' = gameReducer(state, [type |-> "SET_STATUS", payload |-> status])
    /\ UNCHANGED ret

setBoard(board) ==
    /\ state' = gameReducer(state, [type |-> "SET_BOARD", payload |-> board])
    /\ UNCHANGED ret

(***************************************************************************)
(* Inputs of the operations, and two positions of a game in progress:      *)
(* MidGame after 8 moves (X on (7,7)..(7,10), O on (8,7)..(8,10), X to     *)
(* move) and LateGame after 254 moves (no line of five, X to move, only    *)
(* the cells (0,4) and (8,2) empty).                                       *)
(***************************************************************************)
MaxSetBoardMoves == 2

MoveCells == { <<7, 6>>, <<7, 11>>, <<8, 11>>, <<0, 4>>, <<8, 2>> }

OffBoard == { <<-1, 0>>, <<0, 16>>, <<16, 7>>, <<7, -1>> }

MidBoard ==
    [ r \in Index |-> [ c \in Index |->
        IF r = 7 /\ c \in 7 .. 10 THEN "X"
        ELSE IF r = 8 /\ c \in 7 .. 10 THEN "O"
        ELSE null ] ]

MidGame ==
    [ board         |-> MidBoard,
      currentPlayer |-> "X",
      status        |-> "playing",
      winner        |-> null,
      winningLine   |-> nullRef,
      lastMove      |-> [row |-> 8, col |-> 10],
      moveCount     |-> 8 ]

LateBoard ==
    [ r \in Index |-> [ c \in Index |->
        IF <<r, c>> \in { <<0, 4>>, <<8, 2>> } THEN null
        ELSE IF <<r, c>> \in { <<0, 0>>, <<0, 1>> } THEN "O"
        ELSE IF <<r, c>> \in { <<8, 6>>, <<8, 10>> } THEN "X"
        ELSE IF (c + 2 * r) % 4 < 2 THEN "X" ELSE "O" ] ]

LateGame ==
    [ board         |-> LateBoard,
      currentPlayer |-> "X",
      status        |-> "playing",
      winner        |-> null,
      winningLine   |-> nullRef,
      lastMove      |-> [row |-> 0, col |-> 3],
      moveCount     |-> 254 ]

BoardPayloads == { createEmptyBoard, LateBoard }

Init ==
    /\ state \in { initialState, MidGame, LateGame }
    /\ ret = "none"
    /\ probe = [ board |-> createEmptyBoard, position |-> [row |-> 0, col |-> 0],
                 player |-> "X" ]
    /\ result = nullRef
    /\ pc = "idle"
    /\ rendered = state.board
    /\ ServiceIdle /\ SocketIdle /\ EnvIdle /\ BrowserIdle

MakeMove ==
    /\ \E p \in MoveCells \cup OffBoard : makeMove(p[1], p[2])
    /\ UNCHANGED <<probe, result, pc, outside>>

ResetGame ==
    /\ resetGame
    /\ UNCHANGED <<probe, result, pc, outside>>

SetStatus ==
    /\ \E status \in GameStatus : setStatus(status)
    /\ UNCHANGED <<probe, result, pc, outside>>

SetBoard ==
    /\ state.moveCount < MaxSetBoardMoves
    /\ \E board \in BoardPayloads : setBoard(board)
    /\ UNCHANGED <<probe, result, pc, outside>>

Next == MakeMove \/ ResetGame \/ SetStatus \/ SetBoard

Spec == Init /\ [][Next]_vars

(***************************************************************************)
(* Direct calls of checkWin on boards drawn from a bounded family: a run   *)
(* of `player` through a centre cell in direction d1 with arms of f and b  *)
(* cells, the two cells beyond its ends set to ff and fb, and a second run *)
(* through the centre in direction d2 with arms of s cells.  The position  *)
(* handed to checkWin is any cell of the first run.                        *)
(***************************************************************************)
MaxArm == 4
MaxArm2 == 2

Centres ==
    { [row |-> 7, col |-> 7], [row |-> 7, col |-> 11], [row |-> 0, col |-> 0],
      [row |-> 0, col |-> 15], [row |-> 15, col |-> 4] }

ProbeLines ==
    << [dx |-> 0, dy |-> 1], [dx |-> 1, dy |-> 0],
       [dx |-> 1, dy |-> 1], [dx |-> 1, dy |-> -1] >>

setCell(board, r, c, v) ==
    IF r \in Index /\ c \in Index THEN [board EXCEPT ![r][c] = v] ELSE board

RECURSIVE paintRun(_, _, _, _, _, _)
paintRun(board, centre, d, from, to, v) ==
    IF from > to THEN board
    ELSE paintRun(setCell(board, centre.row + from * d.dx,
                          centre.col + from * d.dy, v),
                  centre, d, from + 1, to, v)

probeBoard(centre, player, d1, f, b, ff, fb, d2, s) ==
    LET b0 == setCell(createEmptyBoard, centre.row + (f + 1) * d1.dx,
                      centre.col + (f + 1) * d1.dy, ff)
        b1 == setCell(b0, centre.row - (b + 1) * d1.dx,
                      centre.col - (b + 1) * d1.dy, fb)
        b2 == paintRun(b1, centre, d2, -s, s, player)
    IN  paintRun(b2, centre, d1, -b, f, player)

ProbeInit ==
    /\ \E centre \in Centres, player \in PlayerSymbol,
          i1 \in 1 .. 4, i2 \in 1 .. 4,
          f \in 0 .. MaxArm, b \in 0 .. MaxArm, s \in 0 .. MaxArm2 :
         \E ff \in {null, Opponent(player)}, fb \in {null, Opponent(player)},
            at \in (-b) .. f :
            LET position == [ row |-> centre.row + at * ProbeLines[i1].dx,
                              col |-> centre.col + at * ProbeLines[i1].dy ]
            IN  /\ position.row \in Index /\ position.col \in Index
                /\ probe = [ board    |-> probeBoard(centre, player, ProbeLines[i1],
                                                     f, b, ff, fb, ProbeLines[i2], s),
                             position |-> position,
                             player   |-> player ]
    /\ result = nullRef
    /\ pc = "call"
    /\ state = initialState
    /\ ret = "none"
    /\ rendered = state.board
    /\ ServiceIdle /\ SocketIdle /\ EnvIdle /\ BrowserIdle

CallCheckWin ==
    /\ pc = "call"
    /\ result' = checkWin(probe.board, probe.position, probe.player)
    /\ pc' = "return"
    /\ UNCHANGED <<state, ret, probe, outside>>

ProbeNext == CallCheckWin

SpecWin == ProbeInit /\ [][ProbeNext]_vars

(***************************************************************************)
(* Statement of the win rule, independent of checkWin's loops              *)
(***************************************************************************)
Orientations ==
    << [name |-> "horizontal",    dr |-> 0, dc |-> 1],
       [name |-> "vertical",      dr |-> 1, dc |-> 0],
       [name |-> "diagonal-down", dr |-> 1, dc |-> 1],
       [name |-> "diagonal-up",   dr |-> 1, dc |-> -1] >>

cellAt(pos, o, k) == [row |-> pos.row + k * o.dr, col |-> pos.col + k * o.dc]

onBoard(cell) == cell.row \in Index /\ cell.col \in Index

holds(board, cell, v) == onBoard(cell) /\ board[cell.row][cell.col] = v

\* the cells lo .. hi of the line through pos all hold player
RunThrough(board, pos, player, o, lo, hi) ==
    \A k \in lo .. hi : holds(board, cellAt(pos, o, k), player)

\* n contiguous cells of player on the line through pos, pos among them
RunOf(board, pos, player, o, n) ==
    \E a \in 0 .. (n - 1) : RunThrough(board, pos, player, o, -a, n - 1 - a)

\* a run of exactly five through pos with the opposing mark on both ends
BlockedFive(board, pos, player, o) ==
    \E a \in 0 .. 4 :
        /\ RunThrough(board, pos, player, o, -a, 4 - a)
        /\ holds(board, cellAt(pos, o, -a - 1), Opponent(player))
        /\ holds(board, cellAt(pos, o, 5 - a), Opponent(player))

\* a run of exactly five through pos with the board edge on one end and the
\* opposing mark on the other
EdgeFive(board, pos, player, o) ==
    \E a \in 0 .. 4 :
        /\ RunThrough(board, pos, player, o, -a, 4 - a)
        /\ \/ /\ ~onBoard(cellAt(pos, o, -a - 1))
              /\ holds(board, cellAt(pos, o, 5 - a), Opponent(player))
           \/ /\ holds(board, cellAt(pos, o, -a - 1), Opponent(player))
              /\ ~onBoard(cellAt(pos, o, 5 - a))

\* cell lo (<= 0) is the first, cell hi (>= 0) the last cell of the maximal
\* run of player through pos
RunStartsAt(board, pos, player, o, lo) ==
    /\ RunThrough(board, pos, player, o, lo, 0)
    /\ ~holds(board, cellAt(pos, o, lo - 1), player)

RunEndsAt(board, pos, player, o, hi) ==
    /\ RunThrough(board, pos, player, o, 0, hi)
    /\ ~holds(board, cellAt(pos, o, hi + 1), player)

Returned == pc = "return"

\* C1: on a board where no exactly-5 run through the position is flanked on
\* both ends by the opposing mark, checkWin returns a line if and only if one
\* of the four orientations has 5 or more contiguous cells of player through
\* the position; otherwise it returns null.
C1_WinIffFive ==
    (Returned /\ \A i \in 1 .. 4 :
        ~BlockedFive(probe.board, probe.position, probe.player, Orientations[i]))
    => ( (result # nullRef) <=>
         \E i \in 1 .. 4 : RunOf(probe.board, probe.position, probe.player,
                                 Orientations[i], WIN_CONDITION) )

C1_Witness ==
    /\ Returned
    /\ result # nullRef
    /\ result.direction = "diagonal-up"
    /\ \A i \in 1 .. 4 :
        ~BlockedFive(probe.board, probe.position, probe.player, Orientations[i])

\* C2: a run of exactly 5 flanked on both ends by the opposing mark is no
\* win: checkWin returns no line for that orientation.
C2_BlockedFiveNoLine ==
    Returned =>
        \A i \in 1 .. 4 :
            BlockedFive(probe.board, probe.position, probe.player, Orientations[i])
            => ~(result # nullRef /\ result.direction = Orientations[i].name)

\* C3: the board boundary never blocks: a run of exactly 5 with one end at
\* the edge of the board and the opposing mark on the other end is a win.
C3_EdgeDoesNotBlock ==
    (Returned /\ \E i \in 1 .. 4 :
        EdgeFive(probe.board, probe.position, probe.player, Orientations[i]))
    => result # nullRef

C3_Witness ==
    /\ Returned
    /\ EdgeFive(probe.board, probe.position, probe.player, Orientations[1])
    /\ ~RunOf(probe.board, probe.position, probe.player, Orientations[2], 2)
    /\ result # nullRef
    /\ result.direction = "horizontal"
    /\ result.start.col = 0

\* C4: a contiguous run of 6 or more through the last move is a win whatever
\* flanks its ends.
C4_OverlineWins ==
    (Returned /\ \E i \in 1 .. 4 :
        RunOf(probe.board, probe.position, probe.player, Orientations[i],
              WIN_CONDITION + 1))
    => result # nullRef

C4_Witness ==
    /\ Returned
    /\ result # nullRef
    /\ \E lo \in -5 .. 0 :
        /\ RunThrough(probe.board, probe.position, probe.player, Orientations[2],
                      lo, lo + 5)
        /\ holds(probe.board, cellAt(probe.position, Orientations[2], lo - 1),
                 Opponent(probe.player))
        /\ holds(probe.board, cellAt(probe.position, Orientations[2], lo + 6),
                 Opponent(probe.player))

MoveInputs == MoveCells \cup OffBoard

\* the step is a call makeMove({row: p[1], col: p[2]})
MakeMoveStep(p) == makeMove(p[1], p[2]) /\ UNCHANGED <<probe, result, pc>>

InBounds(p) == p[1] \in Index /\ p[2] \in Index

\* the game is in progress: being played and not won
InProgress(s) == s.status = "playing" /\ s.winner = null

\* the step placed a mark: the board after it differs from the board before
Placed == state'.board # state.board

CountOf(board, v) ==
    Cardinality({ cell \in Index \X Index : board[cell[1]][cell[2]] = v })

\* C6: a makeMove on an in-bounds empty cell while the game is in progress
\* succeeds, sets exactly that cell to the mover's mark and changes no other
\* cell; a makeMove on an out-of-bounds or occupied target fails and leaves
\* the board as it was.
C6_PlaceOrReject ==
    [][ \A p \in MoveInputs : MakeMoveStep(p) =>
          /\ (InBounds(p) /\ InProgress(state) /\ state.board[p[1]][p[2]] = null)
             => /\ ret' = "true"
                /\ \A r \in Index, c \in Index :
                     state'.board[r][c] =
                        IF r = p[1] /\ c = p[2] THEN state.currentPlayer
                        ELSE state.board[r][c]
          /\ (~InBounds(p) \/ state.board[p[1]][p[2]] # null)
             => /\ ret' = "false"
                /\ state'.board = state.board ]_vars

C6_Witness ==
    /\ ret = "false"
    /\ state.status = "playing"
    /\ state.moveCount = 1
    /\ CountOf(state.board, "X") = 1

\* C7: in every reachable state the non-empty cells of the board are exactly
\* the cells placed by accepted moves: the move count equals the number of
\* non-empty cells.
C7_BoardIsMoveLog ==
    state.moveCount = CountOf(state.board, "X") + CountOf(state.board, "O")

C9_FlipOnlyWhenGameGoesOn ==
    [][ \A p \in MoveInputs : (MakeMoveStep(p) /\ Placed) =>
          IF state'.status = "playing"
          THEN state'.currentPlayer = Opponent(state.currentPlayer)
          ELSE state'.currentPlayer = state.currentPlayer ]_vars

\* C9 as amended: every successful placement flips the current turn, also
\* one that wins or fills the board; a rejected makeMove leaves it unchanged.
C9_FlipOnEveryPlacement ==
    [][ \A p \in MoveInputs : MakeMoveStep(p) =>
          IF Placed
          THEN state'.currentPlayer = Opponent(state.currentPlayer)
          ELSE state'.currentPlayer = state.currentPlayer ]_vars

C9_Witness ==
    /\ state.status = "finished"
    /\ state.winner = "X"
    /\ state.lastMove = [row |-> 7, col |-> 11]
    /\ state.currentPlayer = "O"

\* C10: X moves first and the marks alternate, so in every reachable state
\* count(X) - count(O) is 0 or 1.
C10_MarksAlternate ==
    CountOf(state.board, "X") - CountOf(state.board, "O") \in {0, 1}

(***************************************************************************)
(* The reducer on its own: any GameAction dispatched to gameReducer, from  *)
(* the same positions as above.  SET_WINNER carries the winner and a       *)
(* winningLine of null, the payload of a game ended without a line of      *)
(* five.                                                                   *)
(***************************************************************************)
dispatch(action) ==
    /\ state' = gameReducer(state, action)
    /\ UNCHANGED <<ret, probe, result, pc, outside>>

DispatchMakeMove ==
    \E p \in MoveCells :
        dispatch([type |-> "MAKE_MOVE", payload |-> [row |-> p[1], col |-> p[2]]])

DispatchSetWinner ==
    \E winner \in PlayerSymbol :
        dispatch([ type    |-> "SET_WINNER",
                   payload |-> [winner |-> winner, winningLine |-> nullRef] ])

DispatchResetGame == dispatch([type |-> "RESET_GAME"])

DispatchSetStatus ==
    \E status \in GameStatus : dispatch([type |-> "SET_STATUS", payload |-> status])

DispatchSetBoard ==
    /\ state.moveCount < MaxSetBoardMoves
    /\ \E board \in BoardPayloads : dispatch([type |-> "SET_BOARD", payload |-> board])

ReducerNext ==
    \/ DispatchMakeMove
    \/ DispatchSetWinner
    \/ DispatchResetGame
    \/ DispatchSetStatus
    \/ DispatchSetBoard

SpecReducer == Init /\ [][ReducerNext]_vars

\* the game is over: won ('finished') or drawn ('draw')
GameOver(s) == s.status \in {"finished", "draw"}

\* the step starts a new game (RESET_GAME)
Resets == state' = [initialState EXCEPT !.board = createEmptyBoard]

\* C11: once a game is over (won or drawn), nothing short of starting a new
\* game changes its outcome: every later MAKE_MOVE, SET_WINNER or SET_STATUS
\* leaves status, winner and winning line as they were.
C11_OneTerminalTransition ==
    [][ (GameOver(state) /\ ~Resets) =>
            /\ state'.status = state.status
            /\ state'.winner = state.winner
            /\ state'.winningLine = state.winningLine ]_vars

\* C12: makeMove answers false, with the state unchanged, for a position off
\* the board, an occupied cell or a game that is not in progress, and answers
\* true only when the move was applied (a mark was placed).
C12_TrueOnlyWhenApplied ==
    [][ \A p \in MoveInputs :
          MakeMoveStep(p) =>
            /\ (ret' = "true") = Placed
            /\ (ret' = "false") => (state' = state)
            /\ ( \/ ~InBounds(p)
                 \/ state.board[p[1]][p[2]] # null
                 \/ ~InProgress(state) ) => (ret' = "false") ]_vars

(***************************************************************************)
(* UserService.updateStats (server): findById reads the user's row, the    *)
(* switch on the result changes the loaded entity, save writes it back.    *)
(* The call awaits findById and save, so calls interleave between the two. *)
(* Each call is made for the end of one game; the service is handed the    *)
(* user id and the result only, the game is kept here to tell a repeated   *)
(* call from the call of another game.                                     *)
(***************************************************************************)
MaxCalls == 2
MaxGames == 1

UserIds == {"u1", "u2"}
UnknownIds == {"nobody"}
GameResults == {"win", "loss", "draw"}
Games == 1 .. MaxGames

\* a row of the users table as the entity's column defaults make it
newUser == [elo |-> 1000, wins |-> 0, losses |-> 0, draws |-> 0]

\* what the switch adds to user.elo
eloAdded_lossCosts(res) ==
    IF res = "win" THEN 3 ELSE IF res = "draw" THEN 1 ELSE -3

eloAdded(res) ==
    IF res = "win" THEN 3 ELSE IF res = "draw" THEN 1 ELSE 0

\* the entity after the switch of updateStats
switchResult(user, res) ==
    [ elo    |-> user.elo + eloAdded(res),
      wins   |-> IF res = "win" THEN user.wins + 1 ELSE user.wins,
      losses |-> IF res = "loss" THEN user.losses + 1 ELSE user.losses,
      draws  |-> IF res = "draw" THEN user.draws + 1 ELSE user.draws ]

\* updateStats up to its first await: findById resolves with the row, or
\* throws NotFoundException
updateStatsFind(userId, res, game) ==
    /\ Len(calls) < MaxCalls
    /\ calls' = Append(calls,
                   IF userId \in DOMAIN users
                   THEN [ userId |-> userId, result |-> res, game |-> game,
                          at |-> "save", user |-> users[userId] ]
                   ELSE [ userId |-> userId, result |-> res, game |-> game,
                          at |-> "NotFoundException", user |-> nullRef ])
    /\ UNCHANGED users

\* the rest of call i: the switch and userRepository.save(user)
updateStatsSave(i) ==
    /\ calls[i].at = "save"
    /\ users' = [users EXCEPT ![calls[i].userId] =
                                  switchResult(calls[i].user, calls[i].result)]
    /\ calls' = [calls EXCEPT ![i].at = "returned"]

StatsInit ==
    /\ users = [id \in UserIds |-> newUser]
    /\ calls = <<>>
    /\ state = initialState /\ ret = "none" /\ rendered = state.board
    /\ probe = [ board |-> createEmptyBoard, position |-> [row |-> 0, col |-> 0],
                 player |-> "X" ]
    /\ result = nullRef
    /\ pc = "idle"
    /\ SocketIdle /\ EnvIdle /\ BrowserIdle

notService == <<state, ret, probe, result, pc, rendered, socketVars, env, browser>>

UpdateStatsFind ==
    /\ \E userId \in UserIds \cup UnknownIds, res \in GameResults, game \in Games :
           updateStatsFind(userId, res, game)
    /\ UNCHANGED notService

UpdateStatsSave(i) ==
    /\ updateStatsSave(i)
    /\ UNCHANGED notService

StatsNext ==
    \/ UpdateStatsFind
    \/ \E i \in 1 .. Len(calls) : UpdateStatsSave(i)

SpecStats == StatsInit /\ [][StatsNext]_vars

\* C13: a call of updateStats writes the row it loaded with flat points added
\* to elo (win 3, draw 1, loss 0) and exactly the counter of its result raised
\* by one, the other two counters as loaded.
C13_FlatDeltas ==
    [][ \A i \in 1 .. Len(calls) :
          UpdateStatsSave(i) =>
            LET loaded == calls[i].user
                saved  == users'[calls[i].userId]
                res    == calls[i].result
            IN  /\ saved.elo - loaded.elo =
                       (IF res = "win" THEN 3 ELSE IF res = "draw" THEN 1 ELSE 0)
                /\ saved.wins - loaded.wins = (IF res = "win" THEN 1 ELSE 0)
                /\ saved.losses - loaded.losses = (IF res = "loss" THEN 1 ELSE 0)
                /\ saved.draws - loaded.draws = (IF res = "draw" THEN 1 ELSE 0)
                /\ \A id \in UserIds \ {calls[i].userId} : users'[id] = users[id] ]_vars

\* two players at 1000/1000 after one decisive game (1003/1000, one win, one
\* loss) or after one drawn game (1001/1001, one draw each)
C13_Witness ==
    \/ /\ users["u1"] = [elo |-> 1003, wins |-> 1, losses |-> 0, draws |-> 0]
       /\ users["u2"] = [elo |-> 1000, wins |-> 0, losses |-> 1, draws |-> 0]
    \/ /\ users["u1"] = [elo |-> 1001, wins |-> 0, losses |-> 0, draws |-> 1]
       /\ users["u2"] = [elo |-> 1001, wins |-> 0, losses |-> 0, draws |-> 1]

\* C14: a call of updateStats that repeats a call already completed for the
\* same user, game and result leaves the users table as it is.
C14_AppliedOnce ==
    [][ \A i \in 1 .. Len(calls) :
          ( /\ UpdateStatsSave(i)
            /\ \E j \in 1 .. Len(calls) :
                  /\ j # i
                  /\ calls[j].at = "returned"
                  /\ calls[j].userId = calls[i].userId
                  /\ calls[j].game = calls[i].game
                  /\ calls[j].result = calls[i].result )
          => users' = users ]_vars

(***************************************************************************)
(* makeMove called more than once from one render.  React reduces the      *)
(* dispatched actions in the order of the calls; the component renders     *)
(* again, and the makeMove callback is created again with the new          *)
(* state.board, only after the calls of the running event have returned.   *)
(***************************************************************************)
RaceInit ==
    /\ state \in { MidGame, LateGame }
    /\ rendered = state.board
    /\ ret = "none"
    /\ probe = [ board |-> createEmptyBoard, position |-> [row |-> 0, col |-> 0],
                 player |-> "X" ]
    /\ result = nullRef
    /\ pc = "idle"
    /\ ServiceIdle /\ SocketIdle /\ EnvIdle /\ BrowserIdle

notGame == <<probe, result, pc, serviceVars, socketVars, env, browser>>

\* a call of the callback of the last render
CallMakeMove(p) ==
    /\ makeMoveOf(rendered, p[1], p[2])
    /\ UNCHANGED <<rendered, notGame>>

\* the render after a change of state.board: useCallback creates makeMove anew
Render ==
    /\ rendered # state.board
    /\ rendered' = state.board
    /\ UNCHANGED <<state, ret, notGame>>

RaceNext ==
    \/ \E p \in MoveCells \cup OffBoard : CallMakeMove(p)
    \/ Render

SpecRace == RaceInit /\ [][RaceNext]_vars

\* a move submitted from the last render has been applied since
Stale == rendered # state.board

\* C15: of the moves submitted for one turn of a game in progress (calls of
\* makeMove from one render) only the first to arrive is applied; every later
\* one is answered false and changes nothing, and makeMove never answers true
\* for a move that placed no mark.
C15_SecondSubmissionRejected ==
    [][ \A p \in MoveInputs :
          (CallMakeMove(p) /\ InProgress(state)) =>
            /\ (ret' = "true") = Placed
            /\ Stale => (ret' = "false" /\ state' = state) ]_vars

(***************************************************************************)
(* SocketClient (client/src/lib/socket/client.ts).  A Socket made by io()  *)
(* connects by itself and, with reconnection: true, tries again after a    *)
(* lost connection or a failed attempt, up to reconnectionAttempts times   *)
(* after the first failure; socket.disconnect() closes it for good.  Its   *)
(* record holds: connected (socket.connected), open (not closed and not    *)
(* given up), failed (attempts failed since it was last connected) and     *)
(* handlers (the number of times setupEventHandlers ran on it).  The       *)
(* handlers read this.socket and this.reconnectAttempts when they run, so  *)
(* those of a socket the client no longer holds act on the socket it holds *)
(* now.                                                                    *)
(***************************************************************************)
maxReconnectAttempts == 5
MaxSockets == 2
MaxConnects == 3

\* this.socket?.connected
isConnected_never(c, ss) == FALSE

isConnected(c, ss) == c.socket # noSocket /\ ss[c.socket].connected

\* a Socket as io() returns it, after setupEventHandlers
newSocket == [connected |-> FALSE, open |-> TRUE, failed |-> 0, handlers |-> 1]

\* SocketClient.connect
connect ==
    /\ Len(conn) < MaxConnects
    /\ IF isConnected(client, sockets)
       THEN /\ conn' = Append(conn, client.socket)
            /\ UNCHANGED <<client, sockets>>
       ELSE /\ Len(sockets) < MaxSockets
            /\ sockets' = Append(sockets, newSocket)
            /\ client' = [client EXCEPT !.socket = Len(sockets) + 1]
            /\ conn' = Append(conn, Len(sockets) + 1)

\* what SocketClient.disconnect makes of the client and of the sockets
disconnected(c, ss) ==
    IF c.socket # noSocket
    THEN [ client  |-> [c EXCEPT !.socket = noSocket],
           sockets |-> [ss EXCEPT ![c.socket].connected = FALSE,
                                  ![c.socket].open = FALSE] ]
    ELSE [client |-> c, sockets |-> ss]

\* SocketClient.disconnect
disconnect ==
    /\ client' = disconnected(client, sockets).client
    /\ sockets' = disconnected(client, sockets).sockets
    /\ UNCHANGED conn

\* socket s connects or reconnects: the 'connect' handler
onConnect(s) ==
    /\ sockets[s].open /\ ~sockets[s].connected
    /\ sockets' = [sockets EXCEPT ![s].connected = TRUE, ![s].failed = 0]
    /\ client' = [client EXCEPT !.reconnectAttempts = 0]
    /\ UNCHANGED conn

\* socket s loses its connection: the 'disconnect' handler (it only logs)
onDisconnect(s) ==
    /\ sockets[s].connected
    /\ sockets' = [sockets EXCEPT ![s].connected = FALSE]
    /\ UNCHANGED <<client, conn>>

\* an attempt of socket s fails: the 'connect_error' handler
onConnectError(s) ==
    /\ sockets[s].open /\ ~sockets[s].connected
    /\ sockets[s].failed <= maxReconnectAttempts
    /\ LET failedNow == sockets[s].failed + 1
           counted   == [client EXCEPT !.reconnectAttempts = @ + 1]
           tried     == [sockets EXCEPT ![s].failed = failedNow,
                                        ![s].open = failedNow <= maxReconnectAttempts]
       IN  IF counted.reconnectAttempts >= maxReconnectAttempts
           THEN /\ client' = disconnected(counted, tried).client
                /\ sockets' = disconnected(counted, tried).sockets
           ELSE /\ client' = counted
                /\ sockets' = tried
    /\ UNCHANGED conn

SocketInit ==
    /\ SocketIdle
    /\ state = initialState /\ ret = "none" /\ rendered = state.board
    /\ probe = [ board |-> createEmptyBoard, position |-> [row |-> 0, col |-> 0],
                 player |-> "X" ]
    /\ result = nullRef
    /\ pc = "idle"
    /\ ServiceIdle /\ EnvIdle /\ BrowserIdle

notSocket == <<state, ret, probe, result, pc, rendered, serviceVars, env, browser>>

Connect == connect /\ UNCHANGED notSocket

Disconnect == disconnect /\ UNCHANGED notSocket

OnConnect == \E s \in 1 .. Len(sockets) : onConnect(s) /\ UNCHANGED notSocket

OnDisconnect == \E s \in 1 .. Len(sockets) : onDisconnect(s) /\ UNCHANGED notSocket

OnConnectError == \E s \in 1 .. Len(sockets) : onConnectError(s) /\ UNCHANGED notSocket

SocketNext == Connect \/ Disconnect \/ OnConnect \/ OnDisconnect \/ OnConnectError

SpecSocket == SocketInit /\ [][SocketNext]_vars

\* C19: connect() called while the client's socket is connected returns that
\* socket, makes no new socket and installs no handlers: the client and every
\* socket stay as they were.
C19_ConnectIdempotent ==
    [][ ( /\ Connect
          /\ client.socket # noSocket
          /\ sockets[client.socket].connected )
        => /\ conn'[Len(conn')] = client.socket
           /\ client' = client
           /\ sockets' = sockets ]_vars

\* connect() was called twice, the second time on the connected socket: both
\* calls returned the one socket there is, with its one set of handlers
C19_Witness ==
    /\ Len(conn) >= 2
    /\ conn[1] = conn[2]
    /\ Len(sockets) = 1
    /\ sockets[1].connected
    /\ sockets[1].handlers = 1
    /\ client.socket = 1

(***************************************************************************)
(* The game page (client/src/app/game/page.tsx): GamePageContent inside a  *)
(* GameProvider, with the GameBoard passing clicks on to makeMove.  The    *)
(* page reads nothing of its surroundings; they are kept in env: the seats *)
(* filled in the room (a player joining, SocketEvent JOIN_ROOM and         *)
(* PLAYER_JOINED, for which the client registers no handler) and the time  *)
(* the turn of a game in progress has lasted, in steps of TickMs.          *)
(***************************************************************************)
TURN_TIMEOUT == 30000
TickMs == 10000

\* "Start game when component mounts": the effect on [state.status, setStatus]
StartOnMount ==
    /\ state.status = "waiting"
    /\ setStatus("playing")
    /\ env' = [env EXCEPT !.turnMs = 0]
    /\ UNCHANGED <<probe, result, pc, rendered, serviceVars, socketVars, browser>>

\* isGameOver of the page, handed to the GameBoard as `disabled`
isGameOver(s) == s.status = "finished" \/ s.status = "draw"

\* React runs the effects of a render before it handles the next event: no
\* click is handled while the effect above is still to run
effectPending == state.status = "waiting"

\* a click on cell p of the board: GameBoard.handleCellClick, then the
\* page's handleCellClick; a mark placed starts the next turn
HandleCellClick(p) ==
    /\ ~effectPending
    /\ ~(isGameOver(state) \/ state.board[p[1]][p[2]] # null)
    /\ makeMove(p[1], p[2])
    /\ env' = [env EXCEPT !.turnMs = IF state'.board # state.board THEN 0 ELSE @]
    /\ UNCHANGED <<probe, result, pc, rendered, serviceVars, socketVars, browser>>

\* the "New Game" button: handleNewGame
HandleNewGame ==
    /\ ~effectPending
    /\ state' = gameReducer(gameReducer(state, [type |-> "RESET_GAME"]),
                            [type |-> "SET_STATUS", payload |-> "playing"])
    /\ env' = [env EXCEPT !.turnMs = 0]
    /\ UNCHANGED <<ret, probe, result, pc, rendered, serviceVars, socketVars, browser>>

\* a player takes a seat in the room
PlayerJoins ==
    /\ env.seats < 2
    /\ env' = [env EXCEPT !.seats = @ + 1]
    /\ UNCHANGED <<state, ret, probe, result, pc, rendered, serviceVars, socketVars, browser>>

\* time passes in the turn of a game in progress; nothing in the page or the
\* reducer runs on it
TurnTick ==
    /\ state.status = "playing" /\ state.winner = null
    /\ env.turnMs <= TURN_TIMEOUT
    /\ env' = [env EXCEPT !.turnMs = @ + TickMs]
    /\ UNCHANGED <<state, ret, probe, result, pc, rendered, serviceVars, socketVars, browser>>

PageInit ==
    /\ state = initialState
    /\ ret = "none"
    /\ rendered = state.board
    /\ probe = [ board |-> createEmptyBoard, position |-> [row |-> 0, col |-> 0],
                 player |-> "X" ]
    /\ result = nullRef
    /\ pc = "idle"
    /\ ServiceIdle /\ SocketIdle /\ EnvIdle /\ BrowserIdle

PageNext ==
    \/ StartOnMount
    \/ \E p \in MoveCells : HandleCellClick(p)
    \/ HandleNewGame
    \/ PlayerJoins
    \/ TurnTick

SpecPage == PageInit /\ [][PageNext]_vars

\* C16: a game in progress never outlasts the 30 seconds of a turn: when the
\* turn timer has expired without a move the game is no longer in progress
\* (it is over, lost by the player to move).
C16_NoTurnPastTimeout ==
    InProgress(state) => env.turnMs <= TURN_TIMEOUT

\* C17: the game goes in progress only with both seats of the room filled,
\* and it does so on an empty board with X to move.
C17_StartsWithBothSeats ==
    [][ (state.status # "playing" /\ state'.status = "playing") =>
            /\ env.seats = 2
            /\ state'.board = createEmptyBoard
            /\ state'.currentPlayer = "X" ]_vars

\* a surrender of `seat`, as the reducer can be told of it: SET_WINNER naming
\* the other seat, with no winning line
Surrender(seat) ==
    dispatch([ type    |-> "SET_WINNER",
               payload |-> [winner |-> Opponent(seat), winningLine |-> nullRef] ])

\* C20: a surrender in a game in progress ends it as finished with the other
\* seat as winner, the board as it was; a surrender in any other phase changes
\* nothing.
C20_SurrenderOnlyInProgress ==
    [][ \A seat \in PlayerSymbol :
          Surrender(seat) =>
            IF InProgress(state)
            THEN /\ state'.status = "finished"
                 /\ state'.winner = Opponent(seat)
                 /\ state'.board = state.board
            ELSE state' = state ]_vars

(***************************************************************************)
(* The game page together with the SocketClient: the connection of the     *)
(* client is lost and comes back while a game is played.  env.away holds   *)
(* from the moment the socket the client holds loses its connection until  *)
(* it is connected again, env.downMs is the time since that moment in      *)
(* steps of TickMs; the repository names no length for the time a player   *)
(* may stay away, GraceMs stands for it.                                   *)
(***************************************************************************)
GraceMs == 20000

notSession == <<probe, result, pc, rendered, serviceVars, browser>>

SessionConnect ==
    /\ connect
    /\ UNCHANGED <<state, ret, env, notSession>>

\* a socket loses its connection: the time away starts
ConnectionLost ==
    /\ \E s \in 1 .. Len(sockets) :
          /\ onDisconnect(s)
          /\ env' = IF s = client.socket
                    THEN [env EXCEPT !.away = TRUE, !.downMs = 0]
                    ELSE env
    /\ UNCHANGED <<state, ret, notSession>>

\* a socket connects, or connects again
Reconnected ==
    /\ \E s \in 1 .. Len(sockets) :
          /\ onConnect(s)
          /\ env' = IF s = client.socket THEN [env EXCEPT !.away = FALSE] ELSE env
    /\ UNCHANGED <<state, ret, notSession>>

\* time passes while the client is away; nothing in the client runs on it
OfflineTick ==
    /\ env.away
    /\ env.downMs <= GraceMs
    /\ env' = [env EXCEPT !.downMs = @ + TickMs]
    /\ UNCHANGED <<state, ret, socketVars, notSession>>

SessionNext ==
    \/ StartOnMount
    \/ \E p \in MoveCells : HandleCellClick(p)
    \/ SessionConnect
    \/ ConnectionLost
    \/ Reconnected
    \/ OfflineTick

SpecSession == PageInit /\ [][SessionNext]_vars

\* C18: losing the connection and getting it back leaves the game (phase,
\* board, moves, turn) as it was, and a game in progress does not outlast an
\* absence longer than the time allowed: it is then finished, with a winner.
C18_AbsenceEndsGame ==
    [][ /\ (ConnectionLost \/ Reconnected) => (state' = state)
        /\ (InProgress(state) /\ env'.downMs > GraceMs) =>
               (state'.status = "finished" /\ state'.winner # null) ]_vars

(***************************************************************************)
(* The game context after the end of a game: makeMove, setStatus and       *)
(* resetGame called directly, and clicks on the board of the page.         *)
(* env.over records that the status has been 'finished' or 'draw' since    *)
(* the last RESET_GAME; the code keeps no such record.                     *)
(***************************************************************************)
\* env after a step of the game context
overKept == [env EXCEPT !.over = @ \/ GameOver(state')]

notContext == <<probe, result, pc, rendered, serviceVars, socketVars, browser>>

AfterMakeMove ==
    /\ \E p \in MoveCells \cup OffBoard : makeMove(p[1], p[2])
    /\ env' = overKept
    /\ UNCHANGED notContext

\* a click on cell p: GameBoard.handleCellClick (disabled is the page's
\* isGameOver), then the page's handleCellClick
AfterClick ==
    /\ \E p \in MoveCells :
          /\ ~(isGameOver(state) \/ state.board[p[1]][p[2]] # null)
          /\ makeMove(p[1], p[2])
    /\ env' = overKept
    /\ UNCHANGED notContext

AfterSetStatus ==
    /\ \E status \in GameStatus : setStatus(status)
    /\ env' = overKept
    /\ UNCHANGED notContext

AfterResetGame ==
    /\ resetGame
    /\ env' = [env EXCEPT !.over = FALSE]
    /\ UNCHANGED notContext

OverNext == AfterMakeMove \/ AfterClick \/ AfterSetStatus \/ AfterResetGame

SpecOver == Init /\ [][OverNext]_vars

\* C21: from the moment a game is over (status 'finished' or 'draw') until
\* RESET_<<"/", "g", "a", "m", "e">>, no move is applied whatever the status is set to: board,
\* moveCount, lastMove, winner and winningLine stay as they were.
C21_NoMoveAfterGameOver ==
    [][ (env.over /\ ~Resets) =>
            /\ state'.board = state.board
            /\ state'.moveCount = state.moveCount
            /\ state'.lastMove = state.lastMove
            /\ state'.winner = state.winner
            /\ state'.winningLine = state.winningLine ]_vars

(***************************************************************************)
(* Authentication in the browser: the Next.js middleware that answers the  *)
(* requests for pages (client/src/middleware.ts), AuthService (login,      *)
(* register, logout) and the response interceptor of ApiClient.  A path is *)
(* the sequence of its characters, so that startsWith, includes and the    *)
(* matcher's pattern are computed on it as the code computes them.         *)
(***************************************************************************)
startsWith(s, prefix) ==
    Len(s) >= Len(prefix) /\ SubSeq(s, 1, Len(prefix)) = prefix

endsWith(s, suffix) ==
    Len(s) >= Len(suffix) /\ SubSeq(s, Len(s) - Len(suffix) + 1, Len(s)) = suffix

includes(s, part) ==
    \E i \in 1 .. (Len(s) - Len(part) + 1) : SubSeq(s, i, i + Len(part) - 1) = part

protectedRoutes ==
    { <<"/", "p", "r", "o", "f", "i", "l", "e">>,
      <<"/", "g", "a", "m", "e">>,
      <<"/", "l", "o", "b", "b", "y">> }

authRoutes_loginOnly ==
    { <<"/", "a", "u", "t", "h", "/", "l", "o", "g", "i", "n">> }

authRoutes ==
    { <<"/", "a", "u", "t", "h", "/", "l", "o", "g", "i", "n">>,
      <<"/", "a", "u", "t", "h", "/", "r", "e", "g", "i", "s", "t", "e", "r">> }

loginPath ==
    <<"/", "a", "u", "t", "h", "/", "l", "o", "g", "i", "n">>
homePath == <<"/">>
\* the part of a path the interceptor looks for
authPart == <<"/", "a", "u", "t", "h">>

imageExtensions ==
    { <<".", "s", "v", "g">>,
      <<".", "p", "n", "g">>,
      <<".", "j", "p", "g">>,
      <<".", "j", "p", "e", "g">>,
      <<".", "g", "i", "f">>,
      <<".", "w", "e", "b", "p">> }

\* config.matcher: every path except those whose part after the first "/"
\* starts with api, _next/static, _next/image or favicon.ico (the dot stands
\* for any character), or ends with one of the image extensions
matcher(pathname) ==
    LET rest == Tail(pathname)
    IN  ~ \/ startsWith(rest, <<"a", "p", "i">>)
          \/ startsWith(rest,
                        <<"_", "n", "e", "x", "t", "/", "s", "t", "a", "t", "i", "c">>)
          \/ startsWith(rest,
                        <<"_", "n", "e", "x", "t", "/", "i", "m", "a", "g", "e">>)
          \/ ( /\ Len(rest) >= 11
               /\ SubSeq(rest, 1, 7) = <<"f", "a", "v", "i", "c", "o", "n">>
               /\ SubSeq(rest, 9, 11) = <<"i", "c", "o">> )
          \/ \E ext \in imageExtensions : endsWith(rest, ext)

\* the function middleware: request is [pathname, cookie], cookie the value
\* of caro_auth_token or noToken when the request carries none
middleware(request) ==
    LET token            == request.cookie
        hasToken         == token # noToken /\ token # ""
        isProtectedRoute == \E route \in protectedRoutes :
                                startsWith(request.pathname, route)
        isAuthRoute      == \E route \in authRoutes :
                                startsWith(request.pathname, route)
    IN  IF isProtectedRoute /\ ~hasToken
        THEN [type |-> "redirect", pathname |-> loginPath,
              redirect |-> request.pathname]
        ELSE IF isAuthRoute /\ hasToken
        THEN [type |-> "redirect", pathname |-> homePath, redirect |-> <<>>]
        ELSE [type |-> "next"]

\* the answer to a request for a page: Next.js runs the middleware on the
\* paths the matcher selects and lets every other request through
respond(request) ==
    IF matcher(request.pathname) THEN middleware(request) ELSE [type |-> "next"]

\* the pages asked for: routes of the application, paths that only begin
\* like one, and paths the matcher leaves out
Paths ==
    { <<"/">>,
      <<"/", "g", "a", "m", "e">>,
      <<"/", "g", "a", "m", "e", "/", "4", "2">>,
      <<"/", "g", "a", "m", "e", "r", "s">>,
      <<"/", "l", "o", "b", "b", "y">>,
      <<"/", "p", "r", "o", "f", "i", "l", "e">>,
      <<"/", "p", "r", "o", "f", "i", "l", "e", "/", "a", ".", "p", "n", "g">>,
      <<"/", "a", "u", "t", "h", "/", "l", "o", "g", "i", "n">>,
      <<"/", "a", "u", "t", "h", "/", "r", "e", "g", "i", "s", "t", "e", "r">>,
      <<"/", "a", "u", "t", "h", "/", "l", "o", "g", "i", "n", "/", "x">>,
      <<"/", "a", "b", "o", "u", "t">>,
      <<"/", "l", "o", "g", "i", "n">>,
      <<"/", "a", "p", "i", "/", "g", "a", "m", "e">>,
      <<"/", "g", "a", "m", "e", ".", "s", "v", "g">> }

Tokens == {"jwt1", "jwt2"}

\* AuthService.saveAuthData, at the end of login and of register
saveAuthData(accessToken) ==
    browser' = [browser EXCEPT !.token = accessToken, !.cookie = accessToken]

\* AuthService.logout
logout ==
    browser' = [browser EXCEPT !.token = noToken, !.cookie = noToken]

\* ApiClient.clearToken
clearToken(b) == [b EXCEPT !.token = noToken]

\* the response interceptor on a 401 answer to a call made from the page shown
onUnauthorized ==
    browser' = IF ~includes(browser.pathname, authPart)
               THEN [clearToken(browser) EXCEPT !.request = loginPath]
               ELSE clearToken(browser)

notBrowser ==
    <<state, ret, probe, result, pc, rendered, serviceVars, socketVars, env>>

AuthInit ==
    /\ BrowserIdle
    /\ state = initialState /\ ret = "none" /\ rendered = state.board
    /\ probe = [ board |-> createEmptyBoard, position |-> [row |-> 0, col |-> 0],
                 player |-> "X" ]
    /\ result = nullRef
    /\ pc = "idle"
    /\ ServiceIdle /\ SocketIdle /\ EnvIdle

\* the user asks for a page
Navigate ==
    /\ browser.request = <<>>
    /\ \E pathname \in Paths : browser' = [browser EXCEPT !.request = pathname]
    /\ UNCHANGED notBrowser

\* the request is answered: the page is shown, or the browser follows the
\* redirect with a request for its target
Serve ==
    /\ browser.request # <<>>
    /\ LET response == respond([ pathname |-> browser.request,
                                 cookie   |-> browser.cookie ])
       IN  browser' = IF response.type = "next"
                      THEN [browser EXCEPT !.pathname = browser.request,
                                           !.request = <<>>,
                                           !.response = response]
                      ELSE [browser EXCEPT !.request = response.pathname,
                                           !.response = response]
    /\ UNCHANGED notBrowser

Login ==
    /\ browser.request = <<>>
    /\ \E accessToken \in Tokens : saveAuthData(accessToken)
    /\ UNCHANGED notBrowser

Logout ==
    /\ browser.request = <<>>
    /\ logout
    /\ UNCHANGED notBrowser

Unauthorized ==
    /\ browser.request = <<>>
    /\ onUnauthorized
    /\ UNCHANGED notBrowser

AuthNext == Navigate \/ Serve \/ Login \/ Logout \/ Unauthorized

SpecAuth == AuthInit /\ [][AuthNext]_vars

\* the routes named by C22, written out apart from the lists of the code
ProtectedPrefixes ==
    { <<"/", "p", "r", "o", "f", "i", "l", "e">>,
      <<"/", "g", "a", "m", "e">>,
      <<"/", "l", "o", "b", "b", "y">> }

AuthPrefixes ==
    { <<"/", "a", "u", "t", "h", "/", "l", "o", "g", "i", "n">>,
      <<"/", "a", "u", "t", "h", "/", "r", "e", "g", "i", "s", "t", "e", "r">> }

LoginPage == <<"/", "a", "u", "t", "h", "/", "l", "o", "g", "i", "n">>

\* the answer C22 gives for a request of `pathname` with or without a token
Decided(pathname, hasToken) ==
    IF (\E route \in ProtectedPrefixes : startsWith(pathname, route)) /\ ~hasToken
    THEN [type |-> "redirect", pathname |-> LoginPage,
          redirect |-> pathname]
    ELSE IF (\E route \in AuthPrefixes : startsWith(pathname, route)) /\ hasToken
    THEN [type |-> "redirect", pathname |-> <<"/">>, redirect |-> <<>>]
    ELSE [type |-> "next"]

\* C22 as stated: every request is answered by its path and the presence of
\* the auth cookie alone: protected path without a token, to /auth/login with
\* redirect=<pathname>; auth path with a token, to "/"; anything else passes.
C22_EveryRequestDecided ==
    [][ Serve => browser'.response =
                    Decided(browser.request, browser.cookie # noToken) ]_vars

\* C22: every request the matcher selects is answered by its path and the
\* presence of the auth cookie as above; a request the matcher leaves out
\* (api, _next/static, _next/image, favicon.ico, a path ending in an image
\* extension) passes through whatever its path begins with.  No request with
\* a token is sent to the login page.
C22_MatchedRequestsDecided ==
    [][ Serve =>
          /\ browser'.response =
                 IF matcher(browser.request)
                 THEN Decided(browser.request, browser.cookie # noToken)
                 ELSE [type |-> "next"]
          /\ (browser.cookie # noToken /\ browser'.response.type = "redirect")
                 => browser'.response.pathname # LoginPage ]_vars

\* a protected-looking path the matcher leaves out was asked for without a
\* token and the page was let through
C22_Witness ==
    /\ browser.cookie = noToken
    /\ browser.pathname =
          <<"/", "p", "r", "o", "f", "i", "l", "e", "/", "a", ".", "p", "n", "g">>
    /\ browser.response.type = "next"

\* C24: the caro_auth_token cookie is present exactly when the localStorage
\* auth token is, after login or register, logout and the handling of a 401;
\* and a user without a localStorage token who asks for the login page gets
\* it (is not sent on to "/").
C24_CookieIffToken ==
    [][ /\ (browser'.cookie # noToken) = (browser'.token # noToken)
        /\ (Serve /\ browser.request = LoginPage /\ browser.token = noToken)
               => browser'.response.type = "next" ]_vars


\* ---------------------------------------------------------------------------
\* Consistency of the game state
\* ---------------------------------------------------------------------------

\* the cells a winning line covers, from its start to its end
LineCells(line) ==
    LET o == CHOOSE x \in {Orientations[i] : i \in 1 .. 4} :
                 x.name = line.direction
    IN {cellAt(line.start, o, k) : k \in 0 .. (BOARD_SIZE - 1)} \cap
       {c \in [row : Index, col : Index] :
           /\ c.row >= line.start.row /\ c.row <= line.end.row
           /\ c.col >= (IF line.start.col <= line.end.col
                         THEN line.start.col ELSE line.end.col)
           /\ c.col <= (IF line.start.col <= line.end.col
                         THEN line.end.col ELSE line.start.col)}

BoardFull(board) == \A r \in Index : \A c \in Index : board[r][c] # null

\* C23: in every state reached through makeMove, resetGame, setStatus and
\* setBoard, the winner is set exactly when the winning line is set and
\* exactly when the status is 'finished'; a drawn game has a full board and
\* no winner; and every cell of the winning line holds the winner's mark.
C23_StateConsistent ==
    /\ (state.winner # null) <=> (state.winningLine # nullRef)
    /\ (state.winner # null) <=> (state.status = "finished")
    /\ (state.status = "draw") => (BoardFull(state.board) /\ state.winner = null)
    /\ (state.winningLine # nullRef) =>
          \A c \in LineCells(state.winningLine) :
              state.board[c.row][c.col] = state.winner


\* ---------------------------------------------------------------------------
\* The socket's retry budget and the sockets left open
\* ---------------------------------------------------------------------------

\* the 'connect_error' handler calls disconnect() on a socket the client holds
GivesUp ==
    /\ OnConnectError
    /\ client.socket # noSocket
    /\ client'.socket = noSocket

\* C25: the client disconnects itself only after maxReconnectAttempts
\* consecutive connect_error events of its socket since that socket's last
\* successful connect or the connect() call that made it, so that a connect()
\* after giving up tolerates five failures again; and reconnectAttempts never
\* exceeds maxReconnectAttempts.
C25_RetryBudget ==
    /\ [](client.reconnectAttempts <= maxReconnectAttempts)
    /\ [][ GivesUp =>
             sockets'[client.socket].failed >= maxReconnectAttempts ]_vars

\* C26: at most one socket the client created is not disconnected.
C26_OneLiveSocket ==
    Cardinality({s \in 1 .. Len(sockets) : sockets[s].open}) <= 1


\* ---------------------------------------------------------------------------
\* Player statistics under overlapping calls
\* ---------------------------------------------------------------------------

\* the calls of updateStats for user id that have returned
ReturnedFor(id) ==
    {i \in 1 .. Len(calls) : calls[i].userId = id /\ calls[i].at = "returned"}

RECURSIVE PointsOf(_)
\* the points the results of the calls in the set are worth
PointsOf(is) ==
    IF is = {} THEN 0
    ELSE LET i == CHOOSE x \in is : TRUE
         IN  (IF calls[i].result = "win" THEN 3
              ELSE IF calls[i].result = "draw" THEN 1 ELSE 0)
             + PointsOf(is \ {i})

AllReturned == \A i \in 1 .. Len(calls) : calls[i].at # "save"

\* C27: whatever the interleaving of the calls of updateStats on one user,
\* once they have all returned every call is counted: wins + losses + draws
\* has grown by the number of calls and elo by the sum of their points.
C27_NoLostUpdate ==
    AllReturned =>
        \A id \in UserIds :
            /\ users[id].wins + users[id].losses + users[id].draws =
                   Cardinality(ReturnedFor(id))
            /\ users[id].elo = newUser.elo + PointsOf(ReturnedFor(id))

\* C28: a user created with the defaults and modified only by updateStats
\* always has elo = 1000 + 3 * wins + draws, and neither elo nor wins, losses
\* or draws ever decreases.
C28_EloAccounting ==
    /\ [](\A id \in UserIds :
             users[id].elo = 1000 + 3 * users[id].wins + users[id].draws)
    /\ [][ \A id \in UserIds :
             /\ users'[id].elo >= users[id].elo
             /\ users'[id].wins >= users[id].wins
             /\ users'[id].losses >= users[id].losses
             /\ users'[id].draws >= users[id].draws ]_vars


\* ---------------------------------------------------------------------------
\* GameBoard: the highlight of the winning line
\* ---------------------------------------------------------------------------

\* the column of a 'diagonal-up' line offset rows below its start
diagonalUpColumn_added(start, offset) == start.col + offset

diagonalUpColumn(start, offset) == start.col - offset

\* isInWinningLine of GameBoard.tsx
isInWinningLine(position, winningLine) ==
    LET start     == winningLine.start
        end       == winningLine.end
        direction == winningLine.direction
        row       == position.row
        col       == position.col
    IN  IF direction = "horizontal"
        THEN row = start.row /\ col >= start.col /\ col <= end.col
        ELSE IF direction = "vertical"
        THEN col = start.col /\ row >= start.row /\ row <= end.row
        ELSE IF direction = "diagonal-down"
        THEN LET offset == row - start.row
             IN  col = start.col + offset /\ row >= start.row /\ row <= end.row
        ELSE IF direction = "diagonal-up"
        THEN LET offset == row - start.row
             IN  /\ col = diagonalUpColumn(start, offset)
                 /\ row >= start.row /\ row <= end.row
        ELSE FALSE

\* the cells GameBoard highlights for a winning line
Highlighted(winningLine) ==
    {cell \in [row : Index, col : Index] : isInWinningLine(cell, winningLine)}

\* the maximal contiguous run of player through pos in orientation o
RunCells(board, pos, player, o) ==
    LET lo == CHOOSE k \in (1 - BOARD_SIZE) .. 0 :
                  RunStartsAt(board, pos, player, o, k)
        hi == CHOOSE k \in 0 .. (BOARD_SIZE - 1) :
                  RunEndsAt(board, pos, player, o, k)
    IN  {cellAt(pos, o, k) : k \in lo .. hi}

\* C29: for every line checkWin returns, in whichever of the four
\* orientations and for a run of five or more, isInWinningLine is true for
\* exactly the cells of the contiguous run of the player's marks through the
\* position in that orientation, all of which hold the player's mark, and
\* false for every other cell of the board.
C29_HighlightIsTheRun ==
    (Returned /\ result # nullRef) =>
        \E i \in 1 .. 4 :
            /\ result.direction = Orientations[i].name
            /\ Highlighted(result) =
                   RunCells(probe.board, probe.position, probe.player,
                            Orientations[i])
            /\ Cardinality(Highlighted(result)) >= WIN_CONDITION
            /\ \A cell \in Highlighted(result) :
                   probe.board[cell.row][cell.col] = probe.player

\* a 'diagonal-up' line of more than five cells was returned and highlighted
C29_Witness ==
    /\ Returned /\ result # nullRef
    /\ result.direction = "diagonal-up"
    /\ Cardinality(Highlighted(result)) > WIN_CONDITION
    /\ probe.position \in Highlighted(result)
    /\ result.start \in Highlighted(result)
    /\ result.end \in Highlighted(result)


\* ---------------------------------------------------------------------------
\* The arrays behind the boards: RESET_GAME and New Game
\* ---------------------------------------------------------------------------
(***************************************************************************)
(* env.boardRef names the array (with its row arrays) that state.board is. *)
(* Every expression of the reducer that builds a board builds the outer    *)
(* array and all sixteen rows anew, so one name per board is enough.  An   *)
(* allocation yields an array that is none of the arrays still referenced: *)
(* initialState.board, which the module keeps, and the board of the state  *)
(* the reducer was given.                                                  *)
(***************************************************************************)
MaxRefs == 2

BoardRefs == 0 .. MaxRefs

allocate(live) == CHOOSE r \in BoardRefs : r \notin live

\* RESET_GAME: { ...initialState, board: createEmptyBoard() }
resetBoardRef_spread(ref) == initialBoardRef

resetBoardRef(ref) == allocate({initialBoardRef, ref})

\* MAKE_MOVE: newBoard = state.board.map(...) when the move is applied,
\* the state as it was when it is rejected
moveBoardRef(ref, applied) ==
    IF applied THEN allocate({initialBoardRef, ref}) ELSE ref

FreshInit ==
    /\ state \in { initialState, MidGame, LateGame }
    /\ env = [newEnv EXCEPT !.boardRef = IF state = initialState
                                         THEN initialBoardRef
                                         ELSE allocate({initialBoardRef})]
    /\ ret = "none"
    /\ rendered = state.board
    /\ probe = [ board |-> createEmptyBoard, position |-> [row |-> 0, col |-> 0],
                 player |-> "X" ]
    /\ result = nullRef
    /\ pc = "idle"
    /\ ServiceIdle /\ SocketIdle /\ BrowserIdle

FreshMakeMove ==
    /\ \E p \in MoveCells \cup OffBoard : makeMove(p[1], p[2])
    /\ env' = [env EXCEPT !.boardRef = moveBoardRef(@, state' # state)]
    /\ UNCHANGED notContext

FreshResetGame ==
    /\ resetGame
    /\ env' = [env EXCEPT !.boardRef = resetBoardRef(@)]
    /\ UNCHANGED notContext

FreshSetStatus ==
    /\ \E status \in GameStatus : setStatus(status)
    /\ UNCHANGED <<env, notContext>>

\* setBoard with a board the caller has built
FreshSetBoard ==
    /\ state.moveCount < MaxSetBoardMoves
    /\ \E board \in BoardPayloads : setBoard(board)
    /\ env' = [env EXCEPT !.boardRef = allocate({initialBoardRef, @})]
    /\ UNCHANGED notContext

\* the page's handleNewGame: resetGame() then setStatus('playing')
FreshNewGame ==
    /\ state' = gameReducer(gameReducer(state, [type |-> "RESET_GAME"]),
                            [type |-> "SET_STATUS", payload |-> "playing"])
    /\ env' = [env EXCEPT !.boardRef = resetBoardRef(@)]
    /\ UNCHANGED <<ret, notContext>>

FreshNext ==
    \/ FreshMakeMove
    \/ FreshResetGame
    \/ FreshSetStatus
    \/ FreshSetBoard
    \/ FreshNewGame

SpecFresh == FreshInit /\ [][FreshNext]_vars

\* C30: RESET_GAME from any reachable state yields exactly the initial state
\* (empty board, X to move, status 'waiting', winner, winningLine and lastMove
\* null, moveCount 0) on a board array that is not the array of the previous
\* game; and New Game (RESET_GAME then SET_STATUS 'playing') ends in status
\* 'playing' with an empty board, X to move, likewise on a new array.
C30_ResetIsFresh ==
    [][ /\ FreshResetGame =>
             /\ state' = [ board         |-> createEmptyBoard,
                           currentPlayer |-> "X",
                           status        |-> "waiting",
                           winner        |-> null,
                           winningLine   |-> nullRef,
                           lastMove      |-> nullRef,
                           moveCount     |-> 0 ]
             /\ env'.boardRef # env.boardRef
        /\ FreshNewGame =>
             /\ state'.status = "playing"
             /\ state'.board = createEmptyBoard
             /\ state'.currentPlayer = "X"
             /\ state'.moveCount = 0 /\ state'.winner = null
             /\ env'.boardRef # env.boardRef ]_vars

\* New Game after a move: the last makeMove was applied, and the state is the
\* initial one in status 'playing' on an array other than initialState.board
C30_Witness ==
    /\ ret = "true"
    /\ state = [initialState EXCEPT !.status = "playing"]
    /\ env.boardRef # initialBoardRef

=============================================================================
